---- MODULE Spec2Model ----
(***************************************************************************)
(* Model of experiment_list.py: the indentation tree parser (Entry,        *)
(* indentation, the tree loop of ExperimentList._load_text) and the        *)
(* experiment repository ExperimentList (construction, cache load/save,    *)
(* text load, append, sort, select, and the aggregation methods).          *)
(*                                                                         *)
(* The source is Python 2 code (pickle files are opened in text mode and   *)
(* None is ordered below every number); the model follows Python 2.        *)
(***************************************************************************)
EXTENDS Integers, Sequences, FiniteSets, TLC

VARIABLES
    text,       \* the lines handed to the tree loop of _load_text
    tree,       \* the arena of Entry objects the tree loop built
    expts,      \* ExperimentList._expts: the ordered records
    byId,       \* ExperimentList._expts_by_id: identifier -> record
    cache,      \* ExperimentList._cache: NoPath or a path
    pklFile,    \* the content of the snapshot file on disk
    last,       \* what the last call did: its name, outcome, diagnostics
    ret         \* the value the last call returned

vars == <<text, tree, expts, byId, cache, pklFile, last, ret>>

-----------------------------------------------------------------------------
(* Bounds of the model.                                                    *)

MaxLines == 3      \* lines of a text file
MaxExpts == 2      \* records held by one repository

-----------------------------------------------------------------------------
(* Generic helpers.                                                        *)

None == "None"

Range(s) == { s[i] : i \in 1..Len(s) }

SeqsUpTo(S, n) == UNION { [1..k -> S] : k \in 0..n }

RECURSIVE SumSeq(_)
SumSeq(s) == IF s = <<>> THEN 0 ELSE Head(s) + SumSeq(Tail(s))

-----------------------------------------------------------------------------
(* Lines are sequences of one-character strings.                           *)

IndentChars == {"-", " "}
Whitespace == {" ", "\n", "\t"}

\* str.lstrip(chars)
RECURSIVE lstrip(_, _)
lstrip(line, chars) ==
    IF line # <<>> /\ Head(line) \in chars THEN lstrip(Tail(line), chars) ELSE line

\* str.rstrip()
RECURSIVE rstrip(_)
rstrip(line) ==
    IF line # <<>> /\ line[Len(line)] \in Whitespace
    THEN rstrip(SubSeq(line, 1, Len(line) - 1))
    ELSE line

\* str.strip()
strip(line) == rstrip(lstrip(line, Whitespace))

\* def indentation(line): len(line) - len(line.lstrip('- '))
indentation(line) == Len(line) - Len(lstrip(line, IndentChars))

\* line.lstrip().startswith('#')
IsComment(line) ==
    LET s == lstrip(line, Whitespace) IN s # <<>> /\ Head(s) = "#"

\* line.strip() == ''
IsBlank(line) == strip(line) = <<>>

-----------------------------------------------------------------------------
(* Entry objects live in an arena: a sequence of nodes addressed by index. *)
(* Index 0 stands for Python's None; index 1 is the root built by          *)
(* _load_text.  Arena order is creation order.                             *)

NoEntry == 0
RootIx == 1

\* Entry.add_line: the line without its indentation prefix, right-stripped
add_line(line) == rstrip(SubSeq(line, indentation(line) + 1, Len(line)))

\* Entry.add_child on the parent's node
add_child(nodes, parent, child) ==
    [nodes EXCEPT ![parent].children = Append(@, child)]

\* Entry.__init__(line, parent, file, lineno): the arena with the new entry
\* appended, registered with its parent unless the parent is None
Entry(nodes, line, parent, lineno) ==
    LET ix == Len(nodes) + 1
        node == [indentation |-> indentation(line),
                 lines |-> <<add_line(line)>>,
                 parent |-> parent,
                 lineno |-> lineno,
                 children |-> <<>>]
        added == Append(nodes, node)
    IN IF parent # NoEntry THEN add_child(added, parent, ix) ELSE added

\* root = Entry('', None, None, None); root.indentation = -1
RootArena ==
    LET made == Entry(<<>>, <<>>, NoEntry, None)
    IN [made EXCEPT ![RootIx].indentation = -1]

\* while current.indentation > ind: current = current.parent
\* Reading .indentation of None raises AttributeError.
RECURSIVE WalkUp(_, _, _)
WalkUp(nodes, current, ind) ==
    IF current = NoEntry THEN [current |-> NoEntry, raised |-> TRUE]
    ELSE IF nodes[current].indentation > ind
         THEN WalkUp(nodes, nodes[current].parent, ind)
         ELSE [current |-> current, raised |-> FALSE]

\* TreeStep with the else branch attaching the new entry to the entry the
\* walk stopped at (parent=current) instead of to that entry's parent
TreeStep_AttachCurrent(st, line, i) ==
    IF st.raised \/ IsComment(line) \/ IsBlank(line) THEN st
    ELSE LET ind == indentation(line) IN
         IF ind > st.nodes[st.current].indentation
         THEN [nodes |-> Entry(st.nodes, line, st.current, i),
               current |-> Len(st.nodes) + 1,
               raised |-> FALSE]
         ELSE LET up == WalkUp(st.nodes, st.current, ind) IN
              IF up.raised THEN [st EXCEPT !.raised = TRUE]
              ELSE [nodes |-> Entry(st.nodes, line, up.current, i),
                    current |-> Len(st.nodes) + 1,
                    raised |-> FALSE]

\* One iteration of "for i,line in enumerate(lines)" (i is 0-based).
TreeStep(st, line, i) ==
    IF st.raised \/ IsComment(line) \/ IsBlank(line) THEN st
    ELSE LET ind == indentation(line) IN
         IF ind > st.nodes[st.current].indentation
         THEN [nodes |-> Entry(st.nodes, line, st.current, i),
               current |-> Len(st.nodes) + 1,
               raised |-> FALSE]
         ELSE LET up == WalkUp(st.nodes, st.current, ind) IN
              IF up.raised THEN [st EXCEPT !.raised = TRUE]
              ELSE [nodes |-> Entry(st.nodes, line,
                                    st.nodes[up.current].parent, i),
                    current |-> Len(st.nodes) + 1,
                    raised |-> FALSE]

RECURSIVE TreeLoop(_, _, _)
TreeLoop(st, lines, i) ==
    IF i >= Len(lines) THEN st
    ELSE TreeLoop(TreeStep(st, lines[i + 1], i), lines, i + 1)

\* The tree-building part of _load_text.
_load_text_tree(lines) ==
    TreeLoop([nodes |-> RootArena, current |-> RootIx, raised |-> FALSE], lines, 0)

-----------------------------------------------------------------------------
(* Records.  Experiment is an external class; the model draws the records  *)
(* from a fixed table of Experiment objects, addressed by object identity. *)
(* Two objects (1 and 4) carry the same expt_id.  Distances are in um; a    *)
(* measurement between cells without a recorded position has no distance.  *)
(* expt_info is a dict: its 'solution' value is modelled by the set of     *)
(* concentration markers the string contains, and a key may be missing.    *)
(* cells maps a cell id to the cell's cre_type; a sweep maps headstage ids *)
(* to their entries.                                                       *)

NoAge == -1        \* expt.age is None
NoDist == -1       \* a distance that was not recorded (NaN)

\* one headstage's entry of a sweep: the short stimulus name, the clamp
\* mode, the holding potential in mV (info[3] * 1000)
Info(stim, mode, mV) == [stim |-> stim, mode |-> mode, holding |-> mV]

Pair(c, u, cd, ud) ==
    [connected |-> c, unconnected |-> u, cdist |-> cd, udist |-> ud]

Experiments ==
    <<  [expt_id |-> <<"f1", 2>>, date |-> 3, region |-> "V1",
         cre_types |-> {"sst"}, age |-> 40,
         expt_info |-> [solution |-> {"2mM"}, temperature |-> <<"3", "4", "C">>],
         summary |-> [k \in {<<"sst", "pvalb">>} |-> Pair(1, 1, <<50>>, <<300>>)],
         cells |-> <<"sst", "pvalb">>, connections |-> << <<1, 2>> >>,
         sweep_summary |->
            << [h \in {0, 1} |-> Info(<<"5", "0", "H", "z">>, "ic", -68)],
               [h \in {0, 1} |-> Info(<<"S", "5", "0", "H", "z">>, "ic", -71)],
               [h \in {0} |-> Info(<<"5", "0", "H", "z">>, "ic", -68)] >>],
        [expt_id |-> <<"f1", 1>>, date |-> 1, region |-> "V1",
         cre_types |-> {"pvalb"}, age |-> NoAge,
         expt_info |-> [solution |-> {}, temperature |-> <<"r", "t">>],
         summary |-> [k \in {<<"sst", "pvalb">>, <<"pvalb", "sst">>} |->
                        IF k = <<"sst", "pvalb">>
                        THEN Pair(2, 0, <<80, 90>>, <<>>)
                        ELSE Pair(0, 1, <<>>, <<120>>)],
         cells |-> <<"pvalb", "sst">>, connections |-> << <<2, 1>> >>,
         sweep_summary |-> <<>>],
        [expt_id |-> <<"f2", 3>>, date |-> 2, region |-> "M1",
         cre_types |-> {"sst", "pvalb"}, age |-> 60,
         expt_info |-> [temperature |-> <<"3", "4", "C">>],
         summary |-> [k \in {<<"pvalb", "sst">>, <<"sst", "sst">>} |->
                        IF k = <<"pvalb", "sst">>
                        THEN Pair(1, 0, <<70>>, <<>>)
                        ELSE Pair(1, 1, <<NoDist>>, <<200>>)],
         cells |-> <<"pvalb", "sst">>, connections |-> << <<1, 2>> >>,
         sweep_summary |->
            << [h \in {0, 1} |-> Info(<<"5", "0", "H", "z">>, "vc", -55)] >>],
        [expt_id |-> <<"f1", 2>>, date |-> 3, region |-> "V1",
         cre_types |-> {"sst"}, age |-> 61,
         expt_info |-> [solution |-> {"1.3mM"}, temperature |-> <<"2", "5", "C">>],
         summary |-> [k \in {<<"sst", "pvalb">>, <<"pvalb", "pvalb">>} |->
                        IF k = <<"sst", "pvalb">>
                        THEN Pair(0, 2, <<>>, <<40, 260>>)
                        ELSE Pair(1, 0, <<NoDist>>, <<>>)],
         cells |-> <<"sst", "pvalb">>, connections |-> <<>>,
         sweep_summary |-> <<>>]  >>

Objs == 1..Len(Experiments)

expt_id(o) == Experiments[o].expt_id

-----------------------------------------------------------------------------
(* The repository: [expts |-> list of objects, byId |-> dict].             *)

EmptyDict == [k \in {} |-> 0]

\* d[key] = value
SetItem(d, key, value) ==
    [k \in (DOMAIN d) \cup {key} |-> IF k = key THEN value ELSE d[k]]

EmptyRepo == [expts |-> <<>>, byId |-> EmptyDict]

\* ExperimentList._add_experiment
_add_experiment(r, o) ==
    [expts |-> Append(r.expts, o), byId |-> SetItem(r.byId, expt_id(o), o)]

\* for expt in expts: self._add_experiment(expt)
RECURSIVE AddAll(_, _)
AddAll(r, os) ==
    IF os = <<>> THEN r ELSE AddAll(_add_experiment(r, Head(os)), Tail(os))

\* list.sort(key=...) is stable: insert each element after the elements
\* whose key is less than or equal to its own.
RECURSIVE InsertByKey(_, _)
InsertByKey(sorted, o) ==
    IF sorted = <<>> THEN <<o>>
    ELSE IF expt_id(o)[2] < expt_id(Head(sorted))[2]
         THEN <<o>> \o sorted
         ELSE <<Head(sorted)>> \o InsertByKey(Tail(sorted), o)

RECURSIVE SortedByKey(_)
SortedByKey(os) ==
    IF os = <<>> THEN <<>>
    ELSE InsertByKey(SortedByKey(SubSeq(os, 1, Len(os) - 1)), os[Len(os)])

\* ExperimentList.sort with its default key, expt.expt_id[1]
sort(r) == [r EXCEPT !.expts = SortedByKey(r.expts)]

-----------------------------------------------------------------------------
(* Cache snapshots.  The file at the cache path is missing, unreadable, or *)
(* the pickle of an ExperimentList: its _cache_version attribute           *)
(* (NoVersion when the attribute is missing) and its _expts.               *)

CacheVersion == 3      \* self._cache_version = 3
NoVersion == -1        \* getattr(el, '_cache_version', None) gave None

NoPath == "None"
PklPath == "expts.pkl"
TxtPath == "expts.txt"

\* filename.endswith('.pkl')
EndsWithPkl(filename) == filename = PklPath

Snapshot(ver, os, src) == [kind |-> "snapshot", ver |-> ver, expts |-> os, src |-> src]

Unreadable(kind) == [kind |-> kind, ver |-> NoVersion, expts |-> <<>>, src |-> "env"]

\* _load_pickle without the version comparison
_load_pickle_NoGate(r, file) ==
    IF file.kind # "snapshot"
    THEN [repo |-> r, exc |-> TRUE, diag |-> FALSE]
    ELSE [repo |-> sort(AddAll(r, file.expts)), exc |-> FALSE,
          diag |-> file.ver # CacheVersion]

\* ExperimentList._load_pickle: the repository after the call, whether an
\* exception left it, whether the version diagnostic was printed
_load_pickle(r, file) ==
    IF file.kind # "snapshot"
    THEN [repo |-> r, exc |-> TRUE, diag |-> FALSE]
    ELSE IF file.ver # CacheVersion
         THEN [repo |-> r, exc |-> FALSE, diag |-> TRUE]
         ELSE [repo |-> sort(AddAll(r, file.expts)), exc |-> FALSE, diag |-> FALSE]

\* ExperimentList.write_cache: pickle.dump(self, open(self._cache, 'w'))
write_cache(r) == Snapshot(CacheVersion, r.expts, "write_cache")

-----------------------------------------------------------------------------
(* Text load.  Experiment.id_from_entry and Experiment(entry) are external:*)
(* for each top-level entry the input says whether id_from_entry raises    *)
(* ("idfail"), Experiment(entry) raises ("consfail", the entry carrying    *)
(* the identifier of object oid), or Experiment(entry) returns object oid. *)

Outcome(kind, oid) == [kind |-> kind, oid |-> oid]

\* LoadStep without the "already cached" check: every entry is constructed
LoadStep_NoCacheCheck(st, oc) ==
    IF oc.kind = "idfail" THEN [st EXCEPT !.errs = @ + 1]
    ELSE IF oc.kind = "consfail" THEN [st EXCEPT !.errs = @ + 1]
         ELSE [st EXCEPT !.repo = _add_experiment(st.repo, oc.oid)]

\* One iteration of "for entry in root.children".
LoadStep(st, oc) ==
    IF oc.kind = "idfail" THEN [st EXCEPT !.errs = @ + 1]
    ELSE IF expt_id(oc.oid) \in DOMAIN st.repo.byId
         THEN [st EXCEPT !.cached = @ + 1]
         ELSE IF oc.kind = "consfail" THEN [st EXCEPT !.errs = @ + 1]
              ELSE [st EXCEPT !.repo = _add_experiment(st.repo, oc.oid)]

RECURSIVE LoadLoop(_, _)
LoadLoop(st, ocs) ==
    IF ocs = <<>> THEN st ELSE LoadLoop(LoadStep(st, Head(ocs)), Tail(ocs))

\* ExperimentList._load_text: build the tree, load every child of the root,
\* report, sort.  An exception of the tree loop leaves the repository as it
\* was and propagates.
_load_text(r, lines, ocs) ==
    LET t == _load_text_tree(lines) IN
    IF t.raised
    THEN [repo |-> r, exc |-> TRUE, n |-> 0, errs |-> 0, cached |-> 0]
    ELSE LET done == LoadLoop([repo |-> r, errs |-> 0, cached |-> 0], ocs)
         IN [repo |-> sort(done.repo), exc |-> FALSE,
             n |-> Len(t.nodes[RootIx].children),
             errs |-> done.errs, cached |-> done.cached]

\* ExperimentList.load: dispatch on the file name
load(r, filename, file, lines, ocs) ==
    IF EndsWithPkl(filename)
    THEN LET res == _load_pickle(r, file)
         IN [repo |-> res.repo, exc |-> res.exc, diag |-> res.diag,
             n |-> 0, errs |-> 0, cached |-> 0]
    ELSE LET res == _load_text(r, lines, ocs)
         IN [repo |-> res.repo, exc |-> res.exc, diag |-> FALSE,
             n |-> res.n, errs |-> res.errs, cached |-> res.cached]

\* ExperimentList.__init__(expts, cache): add the records, then read the
\* cache inside try/except Exception, which prints the error
__init__(ea, ca, file) ==
    LET r0 == AddAll(EmptyRepo, ea) IN
    IF ca = NoPath
    THEN [repo |-> r0, exc |-> FALSE, diag |-> FALSE]
    ELSE LET res == load(r0, ca, file, <<>>, <<>>)
         IN [repo |-> res.repo, exc |-> res.exc, diag |-> res.exc \/ res.diag]

\* ExperimentList.append
append(r, o) == [r EXCEPT !.expts = Append(@, o)]

-----------------------------------------------------------------------------
(* The inputs of the repository operations.                                *)

LnA == <<"A", "\n">>
LnB == <<"-", " ", "B", "\n">>
LnC == <<" ", " ", "-", " ", "C", " ", "\n">>
LnComment == <<" ", "#", "c", "\n">>
LnBlank == <<" ", "\n">>

\* the lines of the text files the repository loads
LoadLines == {LnA, LnB, LnC}

\* what the external collaborators do with one top-level entry
Outcomes ==
    {Outcome("idfail", 0), Outcome("consfail", 1), Outcome("ok", 1), Outcome("ok", 3)}

\* the files the environment may have left at the cache path
InitialFiles ==
    { Unreadable("missing"), Unreadable("corrupt"),
      Snapshot(2, <<1, 3>>, "env"), Snapshot(NoVersion, <<2>>, "env"),
      Snapshot(CacheVersion, <<3, 2>>, "env") }

\* the number of top-level entries of a text file (0 when the tree loop raises)
TopLevel(lines) ==
    LET t == _load_text_tree(lines)
    IN IF t.raised THEN 0 ELSE Len(t.nodes[RootIx].children)

-----------------------------------------------------------------------------
(* select.  An omitted keyword argument (None) is the empty tuple NoArg, a *)
(* supplied one is Arg(value).                                             *)

NoArg == <<>>
Arg(v) == <<v>>
IsNone(a) == Len(a) = 0
Val(a) == a[1]

\* Python 2 orders None below every number
PyLess(a, b) ==
    IF a = NoAge THEN b # NoAge ELSE IF b = NoAge THEN FALSE ELSE a < b

\* str.lower() on the calcium keywords
lower(c) == IF c = "High" THEN "high" ELSE IF c = "Low" THEN "low" ELSE c

\* One iteration of "for ex in self._expts".  ex_calcium is a local of the
\* whole call: an iteration that does not assign it reads the value an earlier
\* iteration left, and raises UnboundLocalError when none did.  A missing
\* 'temperature' key raises KeyError.
SelectStep(st, o, f) ==
    LET ex == Experiments[o]
        active == ~IsNone(f.calcium) /\ Val(f.calcium) # "compare"
        info == ex.expt_info
        noSolution == active /\ "solution" \notin DOMAIN info
        ex_calcium ==
            IF ~active THEN "compare"
            ELSE IF "solution" \notin DOMAIN info THEN st.ex_calcium
            ELSE IF "2mM" \in info.solution THEN "high"
            ELSE IF "1.3mM" \in info.solution THEN "low"
            ELSE st.ex_calcium
        st1 == [st EXCEPT !.ex_calcium = ex_calcium]
    IN
    IF st.raised THEN st
    ELSE IF noSolution THEN [st EXCEPT !.diags = @ + 1]
    ELSE IF ~IsNone(f.start) /\ ex.date < Val(f.start) THEN st1
    ELSE IF ~IsNone(f.stop) /\ ex.date > Val(f.stop) THEN st1
    ELSE IF ~IsNone(f.region) /\ ex.region # Val(f.region) THEN st1
    ELSE IF ~IsNone(f.source_files) /\ ex.expt_id[1] \notin Val(f.source_files) THEN st1
    ELSE IF ~IsNone(f.cre_type) /\ Range(Val(f.cre_type)) \cap ex.cre_types = {} THEN st1
    ELSE IF ~IsNone(f.calcium) /\ ex_calcium = "unbound" THEN [st1 EXCEPT !.raised = TRUE]
    ELSE IF ~IsNone(f.calcium) /\ lower(Val(f.calcium)) # ex_calcium THEN st1
    ELSE IF ~IsNone(f.age) /\ (PyLess(ex.age, Val(f.age)[1])
                               \/ PyLess(Val(f.age)[Len(Val(f.age))], ex.age)) THEN st1
    ELSE IF ~IsNone(f.temp) /\ "temperature" \notin DOMAIN info
         THEN [st1 EXCEPT !.raised = TRUE]
    ELSE IF ~IsNone(f.temp) /\ SubSeq(info.temperature, 1, 2) # Val(f.temp) THEN st1
    ELSE [st1 EXCEPT !.out = Append(@, o)]

RECURSIVE SelectLoop(_, _, _)
SelectLoop(st, os, f) ==
    IF os = <<>> THEN st ELSE SelectLoop(SelectStep(st, Head(os), f), Tail(os), f)

\* ExperimentList.select: the new repository, or an exception
select(r, f) ==
    LET st == SelectLoop([out |-> <<>>, ex_calcium |-> "unbound",
                          raised |-> FALSE, diags |-> 0], r.expts, f)
    IN [raised |-> st.raised, diags |-> st.diags,
        el |-> IF st.raised THEN EmptyRepo ELSE AddAll(EmptyRepo, st.out)]

-----------------------------------------------------------------------------
(* Aggregation.  Keys of summaries are Python tuples, type filters are     *)
(* Python lists; a list never equals a tuple.                              *)

PyList(items) == [type |-> "list", items |-> items]
PyTuple(items) == [type |-> "tuple", items |-> items]

\* list(k) for a tuple k
list(k) == PyList(k)

\* AccumItem comparing the filter with the key as unordered pairs
AccumItem_Unordered(summary, k, v, cre_type) ==
    IF ~IsNone(cre_type) /\ Range(Val(cre_type).items) # Range(k) THEN summary
    ELSE LET s0 == IF k \in DOMAIN summary THEN summary
                   ELSE SetItem(summary, k, Pair(0, 0, <<>>, <<>>))
         IN [s0 EXCEPT ![k] = Pair(@.connected + v.connected,
                                   @.unconnected + v.unconnected,
                                   @.cdist \o v.cdist,
                                   @.udist \o v.udist)]

\* the body of the inner loop of connectivity_summary for one item (k, v)
AccumItem(summary, k, v, cre_type) ==
    IF ~IsNone(cre_type) /\ Val(cre_type) # list(k) THEN summary
    ELSE LET s0 == IF k \in DOMAIN summary THEN summary
                   ELSE SetItem(summary, k, Pair(0, 0, <<>>, <<>>))
         IN [s0 EXCEPT ![k] = Pair(@.connected + v.connected,
                                   @.unconnected + v.unconnected,
                                   @.cdist \o v.cdist,
                                   @.udist \o v.udist)]

\* for k,v in expt.summary().items()
RECURSIVE AccumItems(_, _, _, _)
AccumItems(summary, d, keys, cre_type) ==
    IF keys = {} THEN summary
    ELSE LET k == CHOOSE x \in keys : TRUE
         IN AccumItems(AccumItem(summary, k, d[k], cre_type), d, keys \ {k}, cre_type)

RECURSIVE AccumExpts(_, _, _)
AccumExpts(summary, os, cre_type) ==
    IF os = <<>> THEN summary
    ELSE LET d == Experiments[Head(os)].summary
         IN AccumExpts(AccumItems(summary, d, DOMAIN d, cre_type), Tail(os), cre_type)

\* ExperimentList.connectivity_summary(cre_type)
connectivity_summary(r, cre_type) == AccumExpts(EmptyDict, r.expts, cre_type)

\* 5 * np.round(mV / 5.0): the nearest multiple of 5
Round5(mV) == 5 * ((mV + 2) \div 5)

\* the loop "for sweep in expt.sweep_summary" of connection_summary
RECURSIVE StimLoop(_, _, _, _)
StimLoop(stims, sweeps, pre_id, post_id) ==
    IF sweeps = <<>> THEN stims
    ELSE LET sweep == Head(sweeps) IN
         IF (pre_id - 1) \notin DOMAIN sweep \/ (post_id - 1) \notin DOMAIN sweep
         THEN StimLoop(stims, Tail(sweeps), pre_id, post_id)
         ELSE LET info1 == sweep[pre_id - 1]
                  info2 == sweep[post_id - 1]
                  short_pulse == Head(info1.stim) \in {"S", "s"}
                  stim_name == IF short_pulse THEN Tail(info1.stim) ELSE info1.stim
                  stim == <<info2.mode, stim_name, Round5(info2.holding)>>
                  s0 == IF stim \in DOMAIN stims THEN stims
                        ELSE SetItem(stims, stim, <<0, 0>>)
                  s1 == IF short_pulse
                        THEN [s0 EXCEPT ![stim] = <<@[1], @[2] + 1>>]
                        ELSE [s0 EXCEPT ![stim] = <<@[1] + 1, @[2]>>]
              IN StimLoop(s1, Tail(sweeps), pre_id, post_id)

\* the loop "for pre_id, post_id in expt.connections" for one record
RECURSIVE ConnLoop(_, _, _, _, _)
ConnLoop(summary, o, conns, cre_type, list_stims) ==
    IF conns = <<>> THEN summary
    ELSE LET ex == Experiments[o]
             pre_id == Head(conns)[1]
             post_id == Head(conns)[2]
             types == <<ex.cells[pre_id], ex.cells[post_id]>>
             plain == [cells |-> types, expt |-> o]
             withStims == [cells |-> types, expt |-> o,
                           stims |-> StimLoop(EmptyDict, ex.sweep_summary,
                                              pre_id, post_id)]
         IN IF ~IsNone(cre_type) /\ Val(cre_type) # PyList(types)
            THEN ConnLoop(summary, o, Tail(conns), cre_type, list_stims)
            ELSE ConnLoop(Append(summary, IF list_stims THEN withStims ELSE plain),
                          o, Tail(conns), cre_type, list_stims)

RECURSIVE ConnExpts(_, _, _, _)
ConnExpts(summary, os, cre_type, list_stims) ==
    IF os = <<>> THEN summary
    ELSE ConnExpts(ConnLoop(summary, Head(os), Experiments[Head(os)].connections,
                            cre_type, list_stims),
                   Tail(os), cre_type, list_stims)

\* ExperimentList.connection_summary(cre_type, list_stims=False), called with
\* the arguments kw: cre_type has no default, so a call that does not supply
\* it raises TypeError before the body runs
connection_summary(r, kw) ==
    IF "cre_type" \notin DOMAIN kw
    THEN [raised |-> TRUE, value |-> <<>>]
    ELSE [raised |-> FALSE,
          value |-> ConnExpts(<<>>, r.expts, kw.cre_type,
                              IF "list_stims" \in DOMAIN kw THEN kw.list_stims
                              ELSE FALSE)]

\* for stim, n_sweeps in conn["stims"].items()
RECURSIVE StimItems(_, _, _)
StimItems(conn_type_info, stims, keys) ==
    IF keys = {} THEN conn_type_info
    ELSE LET stim == CHOOSE x \in keys : TRUE
             i0 == IF stim \in DOMAIN conn_type_info THEN conn_type_info
                   ELSE SetItem(conn_type_info, stim, <<>>)
             i1 == [i0 EXCEPT ![stim] = Append(@, stims[stim][1] + stims[stim][2])]
         IN StimItems(i1, stims, keys \ {stim})

\* for conn in conn_info
RECURSIVE StimSummaryLoop(_, _)
StimSummaryLoop(css, conn_info) ==
    IF conn_info = <<>> THEN css
    ELSE LET conn == Head(conn_info)
             connection_type == conn.cells
             c0 == IF connection_type \in DOMAIN css THEN css
                   ELSE SetItem(css, connection_type, EmptyDict)
             c1 == [c0 EXCEPT ![connection_type] =
                                 StimItems(@, conn.stims, DOMAIN conn.stims)]
         IN StimSummaryLoop(c1, Tail(conn_info))

\* ExperimentList.connection_stim_summary: it calls
\* self.connection_summary(list_stims=True)
connection_stim_summary(r) ==
    LET conn_info == connection_summary(r, [list_stims |-> TRUE])
    IN IF conn_info.raised THEN [raised |-> TRUE, value |-> EmptyDict]
       ELSE [raised |-> FALSE, value |-> StimSummaryLoop(EmptyDict, conn_info.value)]

-----------------------------------------------------------------------------
(* What the last call did.  n, errs and cached are the counts _load_text   *)
(* reports; pre is the number of records held before the load began; k and *)
(* s are the numbers of entries of the input that fail and that find their *)
(* identifier in the index; diags counts the diagnostics select printed;   *)
(* args are the arguments of a query.                                      *)

NoCall ==
    [op |-> "none", raised |-> FALSE, exc |-> FALSE, diag |-> FALSE,
     reads |-> "none", n |-> 0, errs |-> 0, cached |-> 0, pre |-> 0,
     k |-> 0, s |-> 0, diags |-> 0, args |-> NoArg]

\* entry i finds its identifier in the index: it was there before the load,
\* or an earlier entry of the file with the same identifier was constructed
Present(ocs, index, i) ==
    /\ ocs[i].kind # "idfail"
    /\ \/ expt_id(ocs[i].oid) \in DOMAIN index
       \/ \E j \in 1..(i - 1) :
            ocs[j].kind = "ok" /\ expt_id(ocs[j].oid) = expt_id(ocs[i].oid)

\* entry i fails: id_from_entry raises, or the factory is called and raises
Fails(ocs, index, i) ==
    \/ ocs[i].kind = "idfail"
    \/ ocs[i].kind = "consfail" /\ ~Present(ocs, index, i)

FailCount(ocs, index) == Cardinality({i \in 1..Len(ocs) : Fails(ocs, index, i)})

SkipCount(ocs, index) == Cardinality({i \in 1..Len(ocs) : Present(ocs, index, i)})

-----------------------------------------------------------------------------
(* The repository as a state machine.                                      *)

Repo == [expts |-> expts, byId |-> byId]

ParserIdle == UNCHANGED <<text, tree>>

\* el = ExperimentList(expts, cache)
Construct(ea, ca) ==
    \E res \in {__init__(ea, ca, pklFile)} :
    /\ Len(res.repo.expts) <= MaxExpts
    /\ expts' = res.repo.expts
    /\ byId' = res.repo.byId
    /\ cache' = ca
    /\ last' = [NoCall EXCEPT !.op = "init", !.exc = res.exc, !.diag = res.diag,
                              !.reads = IF ca = NoPath THEN "none" ELSE "pkl",
                              !.pre = Len(ea)]
    /\ ret' = None
    /\ UNCHANGED pklFile
    /\ ParserIdle

\* el.load('expts.pkl')
LoadCache ==
    \E res \in {load(Repo, PklPath, pklFile, <<>>, <<>>)} :
    /\ Len(res.repo.expts) <= MaxExpts
    /\ expts' = res.repo.expts
    /\ byId' = res.repo.byId
    /\ last' = [NoCall EXCEPT !.op = "load", !.raised = res.exc, !.exc = res.exc,
                              !.diag = res.diag, !.reads = "pkl",
                              !.pre = Len(expts)]
    /\ ret' = None
    /\ UNCHANGED <<cache, pklFile>>
    /\ ParserIdle

\* el.load('expts.txt')
LoadText(lines, ocs) ==
    \E res \in {load(Repo, TxtPath, pklFile, lines, ocs)} :
    /\ Len(res.repo.expts) <= MaxExpts
    /\ expts' = res.repo.expts
    /\ byId' = res.repo.byId
    /\ last' = [NoCall EXCEPT !.op = "load", !.raised = res.exc, !.exc = res.exc,
                              !.reads = "txt", !.n = res.n, !.errs = res.errs,
                              !.cached = res.cached, !.pre = Len(expts),
                              !.k = FailCount(ocs, byId),
                              !.s = SkipCount(ocs, byId)]
    /\ ret' = None
    /\ UNCHANGED <<cache, pklFile>>
    /\ ParserIdle

\* el.append(expt)
AppendExpt(o) ==
    /\ Len(expts) < MaxExpts
    /\ expts' = append(Repo, o).expts
    /\ byId' = append(Repo, o).byId
    /\ last' = [NoCall EXCEPT !.op = "append"]
    /\ ret' = None
    /\ UNCHANGED <<cache, pklFile>>
    /\ ParserIdle

\* el.sort()
Sort ==
    /\ expts' = sort(Repo).expts
    /\ byId' = sort(Repo).byId
    /\ last' = [NoCall EXCEPT !.op = "sort"]
    /\ ret' = None
    /\ UNCHANGED <<cache, pklFile>>
    /\ ParserIdle

\* el.write_cache(): raises when the repository has no cache path
WriteCache ==
    /\ pklFile' = IF cache = NoPath THEN pklFile ELSE write_cache(Repo)
    /\ last' = [NoCall EXCEPT !.op = "write_cache", !.raised = (cache = NoPath)]
    /\ ret' = None
    /\ UNCHANGED <<expts, byId, cache>>
    /\ ParserIdle

Init ==
    /\ text = <<>>
    /\ tree = _load_text_tree(<<>>)
    /\ expts = <<>>
    /\ byId = EmptyDict
    /\ cache = NoPath
    /\ pklFile \in InitialFiles
    /\ last = NoCall
    /\ ret = None

\* the records the cache machine constructs and appends
CacheObjs == {1, 2, 4}

\* Construction, cache load and save, append, sort.
Next ==
    \/ \E ea \in SeqsUpTo(CacheObjs, MaxExpts), ca \in {NoPath, PklPath} :
         Construct(ea, ca)
    \/ LoadCache
    \/ \E o \in CacheObjs : AppendExpt(o)
    \/ Sort
    \/ WriteCache

Spec == Init /\ [][Next]_vars

-----------------------------------------------------------------------------
(* One call on every repository.  The repositories are those that          *)
(* ExperimentList(expts) followed by append calls produces; the            *)
(* specifications below apply one operation to each of them.               *)

RECURSIVE AppendAll(_, _)
AppendAll(r, os) ==
    IF os = <<>> THEN r ELSE AppendAll(append(r, Head(os)), Tail(os))

Repositories ==
    { AppendAll(AddAll(EmptyRepo, SubSeq(os, 1, c)), SubSeq(os, c + 1, Len(os))) :
        <<os, c>> \in { oc \in SeqsUpTo(Objs, MaxExpts) \X (0..MaxExpts) :
                          oc[2] <= Len(oc[1]) } }

InitDrawn ==
    /\ text = <<>>
    /\ tree = _load_text_tree(<<>>)
    /\ \E r \in Repositories : expts = r.expts /\ byId = r.byId
    /\ cache = NoPath
    /\ pklFile = Unreadable("missing")
    /\ last = NoCall
    /\ ret = None

\* the text files and what the collaborators do with their top-level entries
TextInputs ==
    UNION { { [lines |-> lines, ocs |-> ocs] :
                ocs \in [1..TopLevel(lines) -> Outcomes] } :
            lines \in SeqsUpTo(LoadLines, MaxLines) }

\* One text load on every repository.
NextText ==
    /\ last = NoCall
    /\ \E in \in TextInputs : LoadText(in.lines, in.ocs)

SpecText == InitDrawn /\ [][NextText]_vars

-----------------------------------------------------------------------------
(* One query on every repository.                                          *)

Filters ==
    [start : {NoArg, Arg(2)}, stop : {NoArg, Arg(2)},
     region : {NoArg, Arg("V1")}, source_files : {NoArg, Arg({"f1"})},
     cre_type : {NoArg, Arg(<<"sst">>)},
     calcium : {NoArg, Arg("compare"), Arg("high"), Arg("low"), Arg("High")},
     age : {NoArg, Arg(<<40, 60>>)}, temp : {NoArg, Arg(<<"3", "4">>)}]

TypeFilters ==
    {NoArg, Arg(PyList(<<"sst", "pvalb">>)), Arg(PyList(<<"pvalb", "sst">>)),
     Arg(PyList(<<"sst", "sst">>)), Arg(PyTuple(<<"sst", "pvalb">>))}

Idle == UNCHANGED <<text, tree, expts, byId, cache, pklFile>>

\* el.select(...)
Select(f) ==
    /\ last = NoCall
    /\ \E res \in {select(Repo, f)} :
         /\ last' = [NoCall EXCEPT !.op = "select", !.raised = res.raised,
                                   !.diags = res.diags, !.args = f]
         /\ ret' = res.el
    /\ Idle

\* el.connectivity_summary(cre_type)
ConnectivitySummary(ct) ==
    /\ last = NoCall
    /\ last' = [NoCall EXCEPT !.op = "connectivity_summary", !.args = ct]
    /\ ret' = connectivity_summary(Repo, ct)
    /\ Idle

\* el.connection_summary(cre_type, list_stims)
ConnectionSummary(ct, ls) ==
    /\ last = NoCall
    /\ \E res \in {connection_summary(Repo, [cre_type |-> ct, list_stims |-> ls])} :
         /\ last' = [NoCall EXCEPT !.op = "connection_summary",
                                   !.raised = res.raised, !.args = <<ct, ls>>]
         /\ ret' = res.value
    /\ Idle

\* el.connection_stim_summary()
ConnectionStimSummary ==
    /\ last = NoCall
    /\ \E res \in {connection_stim_summary(Repo)} :
         /\ last' = [NoCall EXCEPT !.op = "connection_stim_summary",
                                   !.raised = res.raised]
         /\ ret' = res.value
    /\ Idle

NextQuery ==
    \/ \E f \in Filters : Select(f)
    \/ \E ct \in TypeFilters : ConnectivitySummary(ct)
    \/ \E ct \in TypeFilters, ls \in BOOLEAN : ConnectionSummary(ct, ls)
    \/ ConnectionStimSummary

SpecQuery == InitDrawn /\ [][NextQuery]_vars

-----------------------------------------------------------------------------
(* The ranked connectivity report, print_connectivity_summary.  A float is *)
(* modelled by the fraction in lowest terms that produced it, and NaN by a *)
(* value of its own that is neither less than nor equal to anything.  The  *)
(* printed report is modelled by the rows it prints, in order, and the     *)
(* total line; column padding and the arrow glyph are left out.            *)

Unrestricted == 2147483647   \* 1e9 m, the largest distance the model can hold

\* the radii of "for max_dist in (1e9, 250e-6, 100e-6)", in um
Radii == <<Unrestricted, 250, 100>>

RECURSIVE GCD(_, _)
GCD(a, b) == IF b = 0 THEN a ELSE GCD(b, a % b)

NaN == [num |-> 0, den |-> 0]

\* a / b with true division on numpy integers; 0 / 0 is NaN (the warning is
\* suppressed), and the numerator is never positive over a zero denominator
Div(a, b) ==
    IF b = 0 THEN NaN
    ELSE [num |-> a \div GCD(a, b), den |-> b \div GCD(a, b)]

\* k * f for an integer k
Times(k, f) == IF f = NaN THEN NaN ELSE Div(k * f.num, f.den)

\* sum(np.array(ds) <= max_dist): NaN <= max_dist is False
CountWithin(ds, max_dist) ==
    Cardinality({ i \in 1..Len(ds) : ds[i] # NoDist /\ ds[i] <= max_dist })

\* c = sum(cdist <= max_dist); t = c + np.sum(udist <= max_dist); c / t
pconn(v, max_dist) ==
    LET c == CountWithin(v.cdist, max_dist)
        t == c + CountWithin(v.udist, max_dist)
    IN Div(c, t)

\* np.nanmean(ds) * 1e6: the mean of the recorded distances in um, NaN if none
nanmean(ds) ==
    LET recorded == SelectSeq(ds, LAMBDA d : d # NoDist)
    IN Div(SumSeq(recorded), Len(recorded))

\* the tuple appended to totals for one item (k, v) of the summary
TotalsRow(k, v) ==
    [pre |-> k[1], post |-> k[2],
     connected |-> v.connected,
     probed |-> v.connected + v.unconnected,
     pct |-> [i \in 1..Len(Radii) |-> Times(100, pconn(v, Radii[i]))],
     cdist |-> nanmean(v.cdist),
     udist |-> nanmean(v.udist),
     adist |-> nanmean(v.cdist \o v.udist)]

\* "for k,v in summary.items()": order is the iteration order of the dict
Totals(summary, order) ==
    [i \in 1..Len(order) |-> TotalsRow(order[i], summary[order[i]])]

\* the orders in which a dict with these keys may be iterated
Orders(keys) ==
    { o \in [1..Cardinality(keys) -> keys] : \A i, j \in DOMAIN o : o[i] = o[j] => i = j }

\* key=lambda x: (x[4], x[3], x[0], x[1])
SortKey(row) == <<row.pct[1], row.probed, row.pre, row.post>>

\* the cre type names of the records, in the order of str comparison
TypeNames == <<"pvalb", "sst">>

StrRank(name) == CHOOSE i \in 1..Len(TypeNames) : TypeNames[i] = name

FloatEq(a, b) == a # NaN /\ b # NaN /\ a = b

FloatLt(a, b) == a # NaN /\ b # NaN /\ a.num * b.den < b.num * a.den

\* tuple "<": the first position where the tuples are not equal decides
KeyLt(a, b) ==
    IF ~FloatEq(a[1], b[1]) THEN FloatLt(a[1], b[1])
    ELSE IF a[2] # b[2] THEN a[2] < b[2]
    ELSE IF a[3] # b[3] THEN StrRank(a[3]) < StrRank(b[3])
    ELSE IF a[4] # b[4] THEN StrRank(a[4]) < StrRank(b[4])
    ELSE FALSE

RowLt(x, y) == KeyLt(SortKey(x), SortKey(y))

Reverse(s) == [i \in 1..Len(s) |-> s[Len(s) + 1 - i]]

\* list.sort on fewer than 64 items: the leading run (count_run), reversed
\* if strictly descending, then binary insertion of the rest (binarysort)
RECURSIVE RunLen(_, _, _)
RunLen(a, i, descending) ==
    IF i > Len(a) THEN Len(a)
    ELSE IF RowLt(a[i], a[i - 1]) = descending THEN RunLen(a, i + 1, descending)
    ELSE i - 1

count_run(a) ==
    IF Len(a) < 2 THEN [n |-> Len(a), descending |-> FALSE]
    ELSE LET descending == RowLt(a[2], a[1])
         IN [n |-> RunLen(a, 3, descending), descending |-> descending]

\* the do-while of binarysort; l and r are 0-based as in listobject.c
RECURSIVE BinSearch(_, _, _, _)
BinSearch(a, pivot, l, r) ==
    LET p == l + ((r - l) \div 2)
        l2 == IF RowLt(pivot, a[p + 1]) THEN l ELSE p + 1
        r2 == IF RowLt(pivot, a[p + 1]) THEN p ELSE r
    IN IF l2 < r2 THEN BinSearch(a, pivot, l2, r2) ELSE l2

RECURSIVE binarysort(_, _)
binarysort(a, start) ==
    IF start >= Len(a) THEN a
    ELSE LET l == BinSearch(a, a[start + 1], 0, start)
             moved == SubSeq(a, 1, l) \o <<a[start + 1]>> \o SubSeq(a, l + 1, start)
                          \o SubSeq(a, start + 2, Len(a))
         IN binarysort(moved, start + 1)

\* totals.sort(key=..., reverse=True): reverse, sort ascending, reverse
ListSortReverse(a) ==
    IF Len(a) < 2 THEN a
    ELSE LET rv == Reverse(a)
             run == count_run(rv)
             lead == IF run.descending THEN Reverse(SubSeq(rv, 1, run.n))
                     ELSE SubSeq(rv, 1, run.n)
         IN Reverse(binarysort(lead \o SubSeq(rv, run.n + 1, Len(rv)), run.n))

\* expt.n_connections and expt.n_connections_probed of the external class,
\* taken from the record's own summary
n_connections(o) ==
    LET d == Experiments[o].summary
        RECURSIVE Sum(_)
        Sum(ks) == IF ks = {} THEN 0
                   ELSE LET k == CHOOSE x \in ks : TRUE
                        IN d[k].connected + Sum(ks \ {k})
    IN Sum(DOMAIN d)

n_probed(o) ==
    LET d == Experiments[o].summary
        RECURSIVE Sum(_)
        Sum(ks) == IF ks = {} THEN 0
                   ELSE LET k == CHOOSE x \in ks : TRUE
                        IN d[k].connected + d[k].unconnected + Sum(ks \ {k})
    IN Sum(DOMAIN d)

\* ExperimentList.n_connections_probed: (tot_probed, tot_connected)
n_connections_probed(r) ==
    <<SumSeq([i \in 1..Len(r.expts) |-> n_probed(r.expts[i])]),
      SumSeq([i \in 1..Len(r.expts) |-> n_connections(r.expts[i])])>>

\* ExperimentList.print_connectivity_summary(cre_type); max() of an empty
\* list raises ValueError before any row is printed
print_connectivity_summary(r, cre_type, order) ==
    LET tot == n_connections_probed(r)
        totals == Totals(connectivity_summary(r, cre_type), order)
    IN IF totals = <<>>
       THEN [raised |-> TRUE, rows |-> <<>>, total |-> NaN]
       ELSE [raised |-> FALSE,
             rows |-> ListSortReverse(totals),
             total |-> Times(100, Div(tot[2], tot[2] + tot[1]))]

\* el.print_connectivity_summary(cre_type)
PrintConnectivitySummary(ct) ==
    /\ last = NoCall
    /\ \E order \in Orders(DOMAIN connectivity_summary(Repo, ct)) :
         \E res \in {print_connectivity_summary(Repo, ct, order)} :
            /\ last' = [NoCall EXCEPT !.op = "print_connectivity_summary",
                                      !.raised = res.raised, !.args = ct]
            /\ ret' = [rows |-> res.rows, total |-> res.total]
    /\ Idle

NextReport == \E ct \in TypeFilters : PrintConnectivitySummary(ct)

SpecReport == InitDrawn /\ [][NextReport]_vars

-----------------------------------------------------------------------------
(* The tree loop on every text file.                                       *)

RepoIdle == UNCHANGED <<expts, byId, cache, pklFile>>

\* the lines of the text files the tree loop reads
ParseLines == {LnA, LnB, LnC, LnComment, LnBlank}

\* the tree-building loop of _load_text on the lines of one file
ParseText(lines) ==
    /\ last = NoCall
    /\ text' = lines
    /\ tree' = _load_text_tree(lines)
    /\ last' = [NoCall EXCEPT !.op = "parse", !.reads = "txt",
                              !.raised = _load_text_tree(lines).raised,
                              !.exc = _load_text_tree(lines).raised]
    /\ ret' = None
    /\ RepoIdle

InitParse == Init /\ pklFile = Unreadable("missing")

NextParse == \E lines \in SeqsUpTo(ParseLines, MaxLines) : ParseText(lines)

SpecParse == InitParse /\ [][NextParse]_vars

-----------------------------------------------------------------------------
(* The tree loop on files of up to MaxTreeLines lines with entries at      *)
(* three depths, among them the lines of "- A\n  - B\n  - C\n- D\n".        *)

MaxTreeLines == 4      \* lines of a text file handed to the tree loop

ExA == <<"-", " ", "A", "\n">>
ExB == <<" ", " ", "-", " ", "B", "\n">>
ExC == <<" ", " ", "-", " ", "C", "\n">>
ExD == <<"-", " ", "D", "\n">>

Example == <<ExA, ExB, ExC, ExD>>

TreeLines == {ExA, ExB, ExC, ExD, LnA, LnC, LnComment}

\* One run of the tree loop.
NextTree ==
    /\ last = NoCall
    /\ \E lines \in SeqsUpTo(TreeLines, MaxTreeLines) : ParseText(lines)

SpecTree == InitParse /\ [][NextTree]_vars

-----------------------------------------------------------------------------
(* C2.  Every entry the text parser creates has the depth of the line that *)
(* created it, and every entry that is attached to a parent is a child of  *)
(* the nearest entry, on the path from the previously created entry up to  *)
(* the root, whose depth is strictly less than its own.  (Entries created  *)
(* with no parent at all are the subject of C13.)                          *)

\* the nearest entry from e upwards whose depth is below ind (NoEntry if none)
RECURSIVE NearestBelow(_, _, _)
NearestBelow(nodes, e, ind) ==
    IF e = NoEntry THEN NoEntry
    ELSE IF nodes[e].indentation < ind THEN e
         ELSE NearestBelow(nodes, nodes[e].parent, ind)

C2_NearestAncestor ==
    \A n \in 2..Len(tree.nodes) :
        /\ tree.nodes[n].indentation = indentation(text[tree.nodes[n].lineno + 1])
        /\ tree.nodes[n].parent # NoEntry =>
             tree.nodes[n].parent =
                NearestBelow(tree.nodes, n - 1, tree.nodes[n].indentation)

-----------------------------------------------------------------------------
(* C1.  After any sequence of public operations the index and the record   *)
(* sequence are mutually consistent: every record of the sequence is in    *)
(* the index under its identifier, every indexed record is in the          *)
(* sequence, and no identifier occurs twice in the sequence.               *)

C1_IndexConsistent ==
    /\ \A i \in 1..Len(expts) :
          /\ expt_id(expts[i]) \in DOMAIN byId
          /\ byId[expt_id(expts[i])] = expts[i]
    /\ \A id \in DOMAIN byId : \E i \in 1..Len(expts) : expts[i] = byId[id]
    /\ \A i, j \in 1..Len(expts) :
          i # j => expt_id(expts[i]) # expt_id(expts[j])

-----------------------------------------------------------------------------
(* C3.  A text load whose parse yields N top-level entries, K of which     *)
(* fail, reports exactly K errors, lets no exception reach the caller,     *)
(* counts the entries whose identifier is already in the index as skips,   *)
(* and adds exactly N - K - skips records.                                 *)

C3_PartialFailureCount ==
    (last.op = "load" /\ last.reads = "txt" /\ ~last.exc) =>
        /\ ~last.raised
        /\ last.errs = last.k
        /\ last.cached = last.s
        /\ Len(expts) = last.pre + last.n - last.k - last.s

\* a load of three entries: one fails, one is skipped, one is added
C3_Witness ==
    /\ last.op = "load" /\ last.reads = "txt" /\ ~last.exc
    /\ last.n = 3 /\ last.k = 1 /\ last.s = 1
    /\ Len(expts) = last.pre + 1

-----------------------------------------------------------------------------
(* C4.  Loading a snapshot whose version is not the current version (or    *)
(* that has no version) adds no record: the sequence and the index are     *)
(* what they were before the load (for a construction: the initial records *)
(* alone), no exception reaches the caller, and the reason is printed.     *)

C4_VersionGate ==
    [][ (last'.reads = "pkl" /\ pklFile.kind = "snapshot"
            /\ pklFile.ver # CacheVersion) =>
          /\ ~last'.raised
          /\ last'.diag
          /\ last'.op = "load" => (expts' = expts /\ byId' = byId)
          /\ last'.op = "init" =>
                (Len(expts') = last'.pre /\ expts' \in SeqsUpTo(CacheObjs, MaxExpts)
                 /\ byId' = AddAll(EmptyRepo, expts').byId) ]_vars

\* a stale snapshot holding records was read into a repository holding one
C4_Witness ==
    /\ last.reads = "pkl" /\ last.diag
    /\ pklFile.kind = "snapshot" /\ pklFile.ver # CacheVersion
    /\ pklFile.expts # <<>>
    /\ Len(expts) = 1

-----------------------------------------------------------------------------
(* C5.  write_cache followed by constructing a new repository from the     *)
(* cache file yields a repository whose connectivity_summary(None) equals  *)
(* that of the saved repository, distance lists in the same order.         *)

C5_CacheRoundTrip ==
    [][ (last'.op = "init" /\ last'.pre = 0 /\ cache' = PklPath
            /\ pklFile.src = "write_cache") =>
          connectivity_summary([expts |-> expts', byId |-> byId'], NoArg)
            = connectivity_summary([expts |-> pklFile.expts, byId |-> EmptyDict],
                                   NoArg) ]_vars

-----------------------------------------------------------------------------
(* C8.  An exception raised while reading a cache snapshot is caught,      *)
(* reported as a diagnostic, does not reach the caller of the construction *)
(* or load, and leaves no record of the failed read in the repository.     *)

C8_CacheReadErrorCaught ==
    (last.reads = "pkl" /\ last.exc) =>
        /\ ~last.raised
        /\ last.diag
        /\ Len(expts) = last.pre

-----------------------------------------------------------------------------
(* C6.  select returns a new repository holding exactly the records that   *)
(* satisfy every supplied filter, in repository order; the age filter is   *)
(* inclusive and excludes a record without age; no error is raised.        *)

\* the calcium category of a record: "none" when neither marker is present
Category(o) ==
    LET info == Experiments[o].expt_info IN
    IF "solution" \notin DOMAIN info THEN "none"
    ELSE IF "2mM" \in info.solution THEN "high"
    ELSE IF "1.3mM" \in info.solution THEN "low"
    ELSE "none"

CalciumActive(f) == ~IsNone(f.calcium) /\ Val(f.calcium) # "compare"

Matches(o, f) ==
    LET ex == Experiments[o] IN
    /\ IsNone(f.start) \/ ex.date >= Val(f.start)
    /\ IsNone(f.stop) \/ ex.date <= Val(f.stop)
    /\ IsNone(f.region) \/ ex.region = Val(f.region)
    /\ IsNone(f.source_files) \/ ex.expt_id[1] \in Val(f.source_files)
    /\ IsNone(f.cre_type) \/ Range(Val(f.cre_type)) \cap ex.cre_types # {}
    /\ CalciumActive(f) => Category(o) = lower(Val(f.calcium))
    /\ IsNone(f.age) \/ /\ ex.age # NoAge
                        /\ Val(f.age)[1] <= ex.age
                        /\ ex.age <= Val(f.age)[2]
    /\ IsNone(f.temp) \/ /\ "temperature" \in DOMAIN ex.expt_info
                         /\ SubSeq(ex.expt_info.temperature, 1, 2) = Val(f.temp)

RECURSIVE Matching(_, _)
Matching(os, f) ==
    IF os = <<>> THEN <<>>
    ELSE (IF Matches(Head(os), f) THEN <<Head(os)>> ELSE <<>>) \o Matching(Tail(os), f)

C6_SelectExact ==
    last.op = "select" =>
        /\ ~last.raised
        /\ ret.expts = Matching(expts, last.args)

-----------------------------------------------------------------------------
(* C7.  With an active calcium filter, every record that carries neither   *)
(* concentration marker is excluded from the result and a diagnostic is    *)
(* printed for it, whether its solution metadata is absent or present      *)
(* without a marker, and whatever records precede it.                      *)

C7_NoMarkerExcluded ==
    (last.op = "select" /\ CalciumActive(last.args)) =>
        /\ ~last.raised
        /\ \A o \in Range(expts) : Category(o) = "none" => o \notin Range(ret.expts)
        /\ last.diags = Cardinality({i \in 1..Len(expts) : Category(expts[i]) = "none"})

-----------------------------------------------------------------------------
(* C9.  connectivity_summary(type_filter) holds, for every (pre, post) key *)
(* of any record's summary that the filter admits, the sums of the         *)
(* records' connected and unconnected counts and the concatenation, in     *)
(* repository order, of their distance lists; with a filter the only key   *)
(* is the filter's ordered pair, so (A, B) and (B, A) are never merged.    *)

AllKeys(os) == UNION { DOMAIN Experiments[os[i]].summary : i \in 1..Len(os) }

\* the ordered pair k is the pair the filter names
Admits(ct, k) ==
    IsNone(ct) \/ (Val(ct).type = "list" /\ Val(ct).items = k)

\* the part of record o in the totals of key k
PartOf(o, k) ==
    IF k \in DOMAIN Experiments[o].summary THEN Experiments[o].summary[k]
    ELSE Pair(0, 0, <<>>, <<>>)

RECURSIVE Flatten(_)
Flatten(ss) == IF ss = <<>> THEN <<>> ELSE Head(ss) \o Flatten(Tail(ss))

C9_SummaryTotals ==
    last.op = "connectivity_summary" =>
        /\ DOMAIN ret = { k \in AllKeys(expts) : Admits(last.args, k) }
        /\ \A k \in DOMAIN ret :
              /\ ret[k].connected =
                    SumSeq([i \in 1..Len(expts) |-> PartOf(expts[i], k).connected])
              /\ ret[k].unconnected =
                    SumSeq([i \in 1..Len(expts) |-> PartOf(expts[i], k).unconnected])
              /\ ret[k].cdist =
                    Flatten([i \in 1..Len(expts) |-> PartOf(expts[i], k).cdist])
              /\ ret[k].udist =
                    Flatten([i \in 1..Len(expts) |-> PartOf(expts[i], k).udist])

\* two records contribute to (sst, pvalb); (pvalb, sst) occurs and is left out
C9_Witness ==
    /\ last.op = "connectivity_summary"
    /\ last.args = Arg(PyList(<<"sst", "pvalb">>))
    /\ expts = <<1, 2>>
    /\ DOMAIN ret = {<<"sst", "pvalb">>}
    /\ ret[<<"sst", "pvalb">>] = Pair(3, 1, <<50, 80, 90>>, <<300>>)

-----------------------------------------------------------------------------
(* C10.  connection_stim_summary() completes without raising and returns   *)
(* the mapping (pre_type, post_type) -> stim key -> list of sweep counts,   *)
(* one entry per connection, built from connection_summary with stimulus   *)
(* listing enabled.                                                        *)

C10_StimSummaryReturns ==
    last.op = "connection_stim_summary" =>
        /\ ~last.raised
        /\ ret = StimSummaryLoop(EmptyDict, ConnExpts(<<>>, expts, NoArg, TRUE))

-----------------------------------------------------------------------------
(* C12.  For input whose top-level lines all share the depth of the first  *)
(* line and in which every dedent returns to the depth of a still-open     *)
(* entry, the tree loop does not raise and creates one entry per kept      *)
(* line; the root's children are exactly the lines of the first line's     *)
(* depth, in source order; each entry's children are, in source order,     *)
(* exactly the deeper lines that follow it before the next line of its own *)
(* or lesser depth and that are not nested below another line of that run; *)
(* and each entry's content is its line with the leading '-' and ' '       *)
(* characters and the trailing whitespace stripped.                        *)

\* the 1-based positions of the lines that are neither comments nor blank
Kept(lines) == { i \in 1..Len(lines) : ~IsComment(lines[i]) /\ ~IsBlank(lines[i]) }

Depth(lines, i) == Len(lines[i]) - Len(lstrip(lines[i], IndentChars))

\* the entries open just before line j: the kept lines before j with only
\* deeper kept lines between them and j
OpenAt(lines, j) ==
    { i \in Kept(lines) :
        /\ i < j
        /\ \A k \in Kept(lines) : (i < k /\ k < j) => Depth(lines, k) > Depth(lines, i) }

\* the kept line just before j (0 if j is the first)
PrevKept(lines, j) ==
    IF \E i \in Kept(lines) : i < j
    THEN CHOOSE i \in Kept(lines) : i < j /\ \A k \in Kept(lines) : k < j => k <= i
    ELSE 0

WellNested(lines) ==
    \A j \in Kept(lines) :
        LET p == PrevKept(lines, j) IN
        p # 0 =>
          /\ \A f \in Kept(lines) :
                (\A k \in Kept(lines) : f <= k) => Depth(lines, j) >= Depth(lines, f)
          /\ Depth(lines, j) < Depth(lines, p) =>
                \E i \in OpenAt(lines, j) : Depth(lines, i) = Depth(lines, j)

\* the deeper lines that follow line e before the next line of its own or
\* lesser depth
Run(lines, e) ==
    { j \in Kept(lines) :
        /\ j > e
        /\ \A k \in Kept(lines) : (e < k /\ k <= j) => Depth(lines, k) > Depth(lines, e) }

\* the lines of that run that are not nested below another line of the run
Direct(lines, e) ==
    { j \in Run(lines, e) :
        \A k \in Run(lines, e) : k < j => Depth(lines, k) >= Depth(lines, j) }

\* the lines of the first line's depth
TopLines(lines) ==
    { j \in Kept(lines) :
        \A f \in Kept(lines) :
            (\A k \in Kept(lines) : f <= k) => Depth(lines, j) = Depth(lines, f) }

\* the source lines the entries of a children list were created from
LinesOf(nodes, children) == [c \in 1..Len(children) |-> nodes[children[c]].lineno + 1]

Ascending(s) == \A a, b \in 1..Len(s) : a < b => s[a] < s[b]

ListsExactly(s, S) == Ascending(s) /\ Range(s) = S

C12_WellNestedParse ==
    (last.op = "parse" /\ WellNested(text)) =>
        /\ ~tree.raised
        /\ Len(tree.nodes) = 1 + Cardinality(Kept(text))
        /\ { tree.nodes[n].lineno + 1 : n \in 2..Len(tree.nodes) } = Kept(text)
        /\ ListsExactly(LinesOf(tree.nodes, tree.nodes[RootIx].children),
                        TopLines(text))
        /\ \A n \in 2..Len(tree.nodes) :
              LET e == tree.nodes[n].lineno + 1 IN
              /\ ListsExactly(LinesOf(tree.nodes, tree.nodes[n].children),
                              Direct(text, e))
              /\ tree.nodes[n].lines = <<rstrip(lstrip(text[e], IndentChars))>>

\* "- A", "  - B", "  - C", "- D": A (children B, C) and D (none) under root
C12_Witness ==
    /\ last.op = "parse"
    /\ text = Example
    /\ WellNested(text)
    /\ tree.nodes[RootIx].children = <<2, 5>>
    /\ tree.nodes[2].children = <<3, 4>>
    /\ tree.nodes[5].children = <<>>
    /\ tree.nodes[2].lines = <<<<"A">>>>
    /\ tree.nodes[5].lines = <<<<"D">>>>

-----------------------------------------------------------------------------
(* C13.  For every sequence of input lines the tree loop completes without *)
(* raising; every line that is neither blank nor a comment yields exactly  *)
(* one entry; no entry is created with a missing parent; and a pre-order   *)
(* walk from the root through the children lists visits the entries of the *)
(* kept lines in source order.  This includes inputs whose first line is   *)
(* deeper than a later line.                                               *)

\* the entries below entry n, in pre-order (children lists only)
RECURSIVE PreOrder(_, _)
PreOrder(nodes, n) ==
    LET RECURSIVE Each(_)
        Each(cs) == IF cs = <<>> THEN <<>>
                    ELSE <<Head(cs)>> \o PreOrder(nodes, Head(cs)) \o Each(Tail(cs))
    IN Each(nodes[n].children)

C13_TreeTotal ==
    last.op = "parse" =>
        /\ ~tree.raised
        /\ \A n \in 2..Len(tree.nodes) : tree.nodes[n].parent # NoEntry
        /\ LET walk == LinesOf(tree.nodes, PreOrder(tree.nodes, RootIx)) IN
           /\ Len(walk) = Cardinality(Kept(text))
           /\ ListsExactly(walk, Kept(text))

-----------------------------------------------------------------------------
(* C11.  In the ranked connectivity report there is one row per aggregated *)
(* pair; for each of the three radii for which the pair has a measurement  *)
(* within the radius, the row's percentage is 100 times (connected         *)
(* measurements within the radius) / (connected plus unconnected           *)
(* measurements within the radius), where the unrestricted radius admits   *)
(* every connected and unconnected measurement of the pair; and the rows   *)
(* are in descending order of (overall probability, total probed count,    *)
(* pre type name, post type name).                                         *)

\* the measurements of a distance list the claim counts for radius i
Admitted(ds, i) == IF i = 1 THEN Len(ds) ELSE CountWithin(ds, Radii[i])

\* the claim's ranking key of an aggregated pair: the overall probability
\* as connected over all measurements, then probed, pre and post
RankKey(k, v) ==
    [c |-> Len(v.cdist), t |-> Len(v.cdist) + Len(v.udist),
     probed |-> v.connected + v.unconnected,
     pre |-> StrRank(k[1]), post |-> StrRank(k[2])]

\* a ranks strictly above b
RanksAbove(a, b) ==
    IF a.c * b.t # b.c * a.t THEN a.c * b.t > b.c * a.t
    ELSE IF a.probed # b.probed THEN a.probed > b.probed
    ELSE IF a.pre # b.pre THEN a.pre > b.pre
    ELSE a.post > b.post

C11_RankedReport ==
    LET summary == connectivity_summary(Repo, last.args) IN
    (last.op = "print_connectivity_summary" /\ DOMAIN summary # {}) =>
        /\ ~last.raised
        /\ Len(ret.rows) = Cardinality(DOMAIN summary)
        /\ { <<ret.rows[i].pre, ret.rows[i].post>> : i \in 1..Len(ret.rows) }
              = DOMAIN summary
        /\ \A i \in 1..Len(ret.rows) :
              LET row == ret.rows[i]
                  v == summary[<<row.pre, row.post>>]
              IN \A x \in 1..Len(Radii) :
                    LET c == Admitted(v.cdist, x)
                        t == c + Admitted(v.udist, x)
                    IN t > 0 =>
                         /\ row.pct[x] # NaN
                         /\ row.pct[x].num * t = 100 * c * row.pct[x].den
        /\ \A i, j \in 1..Len(ret.rows) :
              i < j =>
                 RanksAbove(
                    RankKey(<<ret.rows[i].pre, ret.rows[i].post>>,
                            summary[<<ret.rows[i].pre, ret.rows[i].post>>]),
                    RankKey(<<ret.rows[j].pre, ret.rows[j].post>>,
                            summary[<<ret.rows[j].pre, ret.rows[j].post>>]))

====
